---- MODULE Spec2Model ----
(***************************************************************************)
(* Conversation and message orchestration of the meongtamjeongai backend:  *)
(* ConversationService (starting a conversation, resolving a phishing     *)
(* case) and MessageService.send_new_message (one exchange with the Gemini *)
(* gateway), over the conversations, messages and phishing_cases tables    *)
(* and the S3 bucket.                                                      *)
(***************************************************************************)
EXTENDS Integers, Sequences, FiniteSets, TLC

\* ---------------------------------------------------------------- bounds
MaxCalls == 2      \* SendMessage requests issued in one behaviour
MaxStarts == 2     \* StartConversation requests issued in one behaviour
MaxConvs == 1      \* conversations started while requests are served in turn
MaxCases == 1      \* phishing cases the administrator creates
MaxClock == 2      \* last value of the database clock
MaxHistory == 2    \* messages of a history handed to get_chat_response

\* ------------------------------------------------------------- constants
Procs == {1, 2}            \* gunicorn workers, each serving one request
Users == {1, 2}
NoCase == 0                \* applied_phishing_case_id IS NULL
HTTP_OK == 201
HTTP_BAD_REQUEST == 400
HTTP_NOT_FOUND == 404
HTTP_UNPROCESSABLE == 422
HTTP_INTERNAL_ERROR == 500
HTTP_UNAVAILABLE == 503

\* Optional[str]: None is the empty tuple, a string s is <<s>>; a string is
\* the sequence of its characters.
None == <<>>
Some(s) == <<s>>
IsNone(o) == o = <<>>
Val(o) == o[1]

\* SenderType
USER == "user"
AI == "ai"
SYSTEM == "system"

\* PhishingCategoryEnum values requests may name, and the rows of the
\* phishing_categories table (populate_categories inserts only into an
\* empty table, so a value added to the enum later has no row).
CategoryEnum == {"GovScam", "NewAlerts"}
CategoryTable == {"GovScam", "LoanScam"}

\* personas table: id -> starting_message
PersonaIds == {1, 2}
StartingMessage(pid) == IF pid = 1 THEN Some(<<"h", "i">>) ELSE None
RequestedPersonaIds == {1, 2, 3}

Policies == {"none", "category", "forceFresh"}

\* request bodies of POST /conversations/{id}/messages
Contents == {None, Some(<<" ">>), Some(<<"o", "k">>)}
NoImage == "None"
Images == {NoImage, "png", "notbase64"}

\* replies of the model that satisfy GeminiChatResponse: response,
\* suggested_user_questions and progress_check
GeminiAnswers ==
    {[response |-> <<"r">>, suggested_user_questions |-> <<>>,
      progress_check |-> [is_ready_to_move_on |-> FALSE]],
     [response |-> <<"r">>, suggested_user_questions |-> <<"q1", "q2">>,
      progress_check |-> [is_ready_to_move_on |-> TRUE]]}

\* ------------------------------------------------------------- variables
VARIABLES
    apiKey,     \* GEMINI_API_KEY is set (GeminiService.client is not None)
    cases,      \* phishing_cases table: sequence of rows, id = index
    convs,      \* conversations table: sequence of rows, id = index
    msgs,       \* messages table in insertion order, id = index
    s3,         \* keys of the objects stored in the bucket
    keySeq,     \* number of uuid4 keys generated so far
    clock,      \* database clock now()
    call,       \* per worker: the SendMessage request it serves
    eff,        \* per worker: what the current request has written so far
    nCalls,     \* SendMessage requests issued
    start,      \* the last StartConversation request and what it did
    nStarts     \* StartConversation requests issued

vars == <<apiKey, cases, convs, msgs, s3, keySeq, clock, call, eff, nCalls,
          start, nStarts>>

\* ------------------------------------------------------ python helpers
\* bool(s) of a str or None attribute
Truthy(o) == ~IsNone(o) /\ Val(o) # <<>>

RECURSIVE LStrip(_)
LStrip(s) == IF s # <<>> /\ Head(s) = " " THEN LStrip(Tail(s)) ELSE s

RECURSIVE RStrip(_)
RStrip(s) ==
    IF s # <<>> /\ s[Len(s)] = " " THEN RStrip(SubSeq(s, 1, Len(s) - 1)) ELSE s

\* str.strip()
Strip(s) == RStrip(LStrip(s))

\* the check without strip()
IsBlankNoStrip(o) == ~Truthy(o)

\* not content or not content.strip()
IsBlank(o) == ~Truthy(o) \/ Strip(Val(o)) = <<>>

ImageGiven(img) == img # NoImage /\ img # ""

\* ------------------------------------------------------------ tables
MsgIdsOf(cid) == {i \in 1..Len(msgs) : msgs[i].conv = cid}

RECURSIVE OrdersByCreatedAt(_)
\* ORDER BY created_at ASC: the orders the database may return; rows with
\* equal created_at come in any order
OrdersByCreatedAt(ids) ==
    IF ids = {} THEN {<<>>}
    ELSE UNION {{<<i>> \o rest : rest \in OrdersByCreatedAt(ids \ {i})} :
                i \in {k \in ids : \A j \in ids :
                           msgs[k].createdAt <= msgs[j].createdAt}}

\* the query without the filter on conversation_id
GetMessagesOfEveryConversation(cid) == OrdersByCreatedAt(1..Len(msgs))

\* crud_message.get_messages_by_conversation(limit=None, sort_asc=True): the
\* results it may return
GetMessagesByConversation(cid) == OrdersByCreatedAt(MsgIdsOf(cid))

\* the lookup without the filter on user_id
GetConversationAnyOwner(cid, uid) ==
    IF cid \in 1..Len(convs) THEN cid ELSE 0

\* crud_conversation.get_conversation(conversation_id, user_id)
GetConversation(cid, uid) ==
    IF cid \in 1..Len(convs) /\ (uid = 0 \/ convs[cid].user = uid)
    THEN cid ELSE 0

\* the random lookup without the filter on category_code
RandomCaseCandidatesAnyCategory(cat) == {i \in 1..Len(cases) : TRUE}

\* crud_phishing.get_random_phishing_case: the rows it may return
RandomCaseCandidates(cat) ==
    {i \in 1..Len(cases) : IsNone(cat) \/ cases[i].cat = Val(cat)}

\* crud_message.create_message: the row it inserts
NewMessage(cid, sender, content, tokens, key, now) ==
    [conv |-> cid, sender |-> sender,
     content |-> IF IsNone(content) THEN <<>> ELSE Val(content),
     tokens |-> tokens, imageKey |-> key, createdAt |-> now]

\* crud_conversation.update_conversation_last_message_at, called right after
\* the message mid was inserted
TouchLastMessageAt(cs, cid, mid, ms) ==
    [cs EXCEPT ![cid].lastAt = ms[mid].createdAt]


\* ------------------------------------------------------------- initial
NoKey == 0                 \* image_key IS NULL; key k is messages/<uuid k>.png

\* what is kept of the request a worker served before the current one, when
\* the current one repeats it
NoPrev == [status |-> 0, wrote |-> 0]

IdleCall ==
    [pc |-> "idle", conv |-> 0, user |-> 0, content |-> None,
     image |-> NoImage, convCase |-> NoCase, case |-> NoCase, hist |-> <<>>,
     loaded |-> FALSE, sent |-> <<>>, gwCalls |-> 0, gwError |-> "",
     gwStatus |-> 0,
     reply |-> None, puts |-> 0, putKey |-> NoKey, key |-> NoKey,
     userMsg |-> 0, aiMsg |-> 0, status |-> 0, overlapped |-> FALSE,
     result |-> None, prev |-> NoPrev,
     \* last_message_at as the session loaded it, and whether the request
     \* this worker served before, on the same conversation, was cut off
     \* after it had inserted its user message
     lastAt0 |-> 0, cutOff |-> FALSE]

NoEffect == [msgs |-> 0, touches |-> 0, binds |-> 0, objs |-> 0]

NoStart ==
    [policy |-> "", persona |-> 0, cat |-> None, user |-> 0,
     matched |-> FALSE, synth |-> FALSE, status |-> 0, conv |-> 0,
     case |-> NoCase, log |-> <<>>, seen |-> {}]

Init ==
    /\ apiKey \in BOOLEAN
    /\ cases = <<>>
    /\ convs = <<>>
    /\ msgs = <<>>
    /\ s3 = {}
    /\ keySeq = 0
    /\ clock = 0
    /\ call = [p \in Procs |-> IdleCall]
    /\ eff = [p \in Procs |-> NoEffect]
    /\ nCalls = 0
    /\ start = NoStart
    /\ nStarts = 0

\* what the request served by worker p has changed in this step, added to
\* what it had changed before
Account(p) ==
    eff' = [eff EXCEPT ![p] =
        [msgs |-> @.msgs + Len(msgs') - Len(msgs),
         touches |-> @.touches + Cardinality(
             {c \in 1..Len(convs) : convs'[c].lastAt # convs[c].lastAt}),
         binds |-> @.binds + Cardinality(
             {c \in 1..Len(convs) : convs'[c].caseId # convs[c].caseId}),
         objs |-> @.objs + Cardinality(s3' \ s3)]]

Active(p) == call[p].pc \notin {"idle", "done"}

\* the values now() may have when a statement runs: the database clock has
\* stood still or advanced since the last statement
Nows == {t \in {clock, clock + 1} : t <= MaxClock}

\* --------------------------------------------- PhishingService
\* create_new_case, called by the administrator; the foreign key on
\* category_code admits the codes of the category table only
CreateNewCase(cat) ==
    /\ Len(cases) < MaxCases
    /\ cat \in CategoryTable
    /\ cases' = Append(cases, [cat |-> cat])
    /\ UNCHANGED <<apiKey, convs, msgs, s3, keySeq, clock, call, eff, nCalls,
                   start, nStarts>>

\* --------------------------------------------- ConversationService
\* _get_or_create_phishing_case(category_code, force_ai_creation); synthOk is
\* the outcome of the provider call, pick the row the random lookup returns
\* (NoCase when no row matches)
SynthesizeSwallowsFailure(cat, synthOk) ==
    IF Val(cat) \notin CategoryTable
    THEN [status |-> HTTP_NOT_FOUND, case |-> NoCase, synth |-> FALSE,
          cases |-> cases, log |-> <<"category">>]
    ELSE IF ~(apiKey /\ synthOk)
    THEN [status |-> HTTP_OK, case |-> NoCase, synth |-> TRUE,
          cases |-> cases, log |-> <<"category", "synthesize">>]
    ELSE [status |-> HTTP_OK, case |-> Len(cases) + 1, synth |-> TRUE,
          cases |-> Append(cases, [cat |-> Val(cat)]),
          log |-> <<"category", "synthesize", "createCase">>]

\* the generated case used without create_phishing_case
SynthesizeWithoutPersisting(cat, synthOk) ==
    IF Val(cat) \notin CategoryTable
    THEN [status |-> HTTP_NOT_FOUND, case |-> NoCase, synth |-> FALSE,
          cases |-> cases, log |-> <<"category">>]
    ELSE IF ~(apiKey /\ synthOk)
    THEN [status |-> HTTP_INTERNAL_ERROR, case |-> NoCase, synth |-> TRUE,
          cases |-> cases, log |-> <<"category", "synthesize">>]
    ELSE [status |-> HTTP_OK, case |-> Len(cases) + 1, synth |-> TRUE,
          cases |-> cases, log |-> <<"category", "synthesize">>]

Synthesize(cat, synthOk) ==
    IF Val(cat) \notin CategoryTable
    THEN [status |-> HTTP_NOT_FOUND, case |-> NoCase, synth |-> FALSE,
          cases |-> cases, log |-> <<"category">>]
    ELSE IF ~(apiKey /\ synthOk)
    THEN [status |-> HTTP_INTERNAL_ERROR, case |-> NoCase, synth |-> TRUE,
          cases |-> cases, log |-> <<"category", "synthesize">>]
    ELSE [status |-> HTTP_OK, case |-> Len(cases) + 1, synth |-> TRUE,
          cases |-> Append(cases, [cat |-> Val(cat)]),
          log |-> <<"category", "synthesize", "createCase">>]

\* force_ai_creation ignored: the stored case is used when there is one
GetOrCreatePhishingCaseLookupFirst(cat, force, synthOk, pick) ==
    IF pick = NoCase /\ ~IsNone(cat)
    THEN LET r == Synthesize(cat, synthOk)
         IN [r EXCEPT !.log = <<"lookup">> \o @]
    ELSE [status |-> HTTP_OK, case |-> pick, synth |-> FALSE,
          cases |-> cases, log |-> <<"lookup">>]

GetOrCreatePhishingCase(cat, force, synthOk, pick) ==
    IF force
    THEN IF IsNone(cat)
         THEN [status |-> HTTP_INTERNAL_ERROR, case |-> NoCase,
               synth |-> FALSE, cases |-> cases, log |-> <<>>]
         ELSE Synthesize(cat, synthOk)
    ELSE IF pick = NoCase /\ ~IsNone(cat)
         THEN LET r == Synthesize(cat, synthOk)
              IN [r EXCEPT !.log = <<"lookup">> \o @]
         ELSE [status |-> HTTP_OK, case |-> pick, synth |-> FALSE,
               cases |-> cases, log |-> <<"lookup">>]

\* create_ai_message without the update of last_message_at
CreateAiMessageNoTouch(cs, ms, cid, content, now) ==
    [convs |-> cs,
     msgs |-> Append(ms, NewMessage(cid, AI, Some(content), Some(0), NoKey,
                                    now))]

\* MessageService.create_ai_message(conversation_id, content, token_usage=0)
\* applied to the tables cs, ms
CreateAiMessage(cs, ms, cid, content, now) ==
    LET ms2 == Append(ms, NewMessage(cid, AI, Some(content), Some(0), NoKey,
                                     now))
    IN [convs |-> TouchLastMessageAt(cs, cid, Len(ms2), ms2), msgs |-> ms2]

\* the starting message sent before the phishing case is applied
CreateConversationBaseSeedFirst(pid, uid, title, caseId, now, now2) ==
    LET cid == Len(convs) + 1
        bare == Append(convs, [user |-> uid, persona |-> pid, title |-> title,
                               caseId |-> NoCase, createdAt |-> now,
                               lastAt |-> now])
        seeded == IF Truthy(StartingMessage(pid))
                  THEN CreateAiMessage(bare, msgs, cid,
                                       Val(StartingMessage(pid)), now2)
                  ELSE [convs |-> bare, msgs |-> msgs]
        bound == IF caseId # NoCase
                 THEN [seeded.convs EXCEPT ![cid].caseId = caseId]
                 ELSE seeded.convs
    IN [conv |-> cid, convs |-> bound, msgs |-> seeded.msgs,
        log |-> <<"createConversation">>
                \o (IF Truthy(StartingMessage(pid)) THEN <<"seed">> ELSE <<>>)
                \o (IF caseId # NoCase THEN <<"bind">> ELSE <<>>)]

\* _create_conversation_base(persona, current_user, title, phishing_case)
CreateConversationBase(pid, uid, title, caseId, now, now2) ==
    LET cid == Len(convs) + 1
        bare == Append(convs, [user |-> uid, persona |-> pid, title |-> title,
                               caseId |-> NoCase, createdAt |-> now,
                               lastAt |-> now])
        bound == IF caseId # NoCase THEN [bare EXCEPT ![cid].caseId = caseId]
                 ELSE bare
        seeded == IF Truthy(StartingMessage(pid))
                  THEN CreateAiMessage(bound, msgs, cid,
                                       Val(StartingMessage(pid)), now2)
                  ELSE [convs |-> bound, msgs |-> msgs]
    IN [conv |-> cid, convs |-> seeded.convs, msgs |-> seeded.msgs,
        log |-> <<"createConversation">>
                \o (IF caseId # NoCase THEN <<"bind">> ELSE <<>>)
                \o (IF Truthy(StartingMessage(pid)) THEN <<"seed">> ELSE <<>>)]

\* the categories for which a start_conversation_with_category has stored a
\* generated case so far
SynthesizedSoFar ==
    start.seen \cup
        (IF start.policy = "category" /\ start.synth /\ start.status = HTTP_OK
         THEN {Val(start.cat)} ELSE {})

\* start_new_conversation / start_conversation_with_category /
\* start_conversation_with_ai_case, by policy
StartConversation(uid, pid, policy, cat, synthOk, pick, now, now2) ==
    /\ nStarts < MaxStarts
    /\ now \in Nows
    /\ now2 \in {t \in {now, now + 1} : t <= MaxClock}
    /\ nStarts' = nStarts + 1
    /\ LET catArg == IF policy = "none" THEN None ELSE Some(cat)
           candidates == RandomCaseCandidates(catArg)
       IN /\ IF candidates = {} THEN pick = NoCase ELSE pick \in candidates
          /\ IF pid \notin PersonaIds
             THEN /\ start' = [NoStart EXCEPT !.policy = policy,
                                 !.persona = pid, !.cat = catArg,
                                 !.user = uid, !.matched = candidates # {},
                                 !.status = HTTP_NOT_FOUND,
                                 !.seen = SynthesizedSoFar]
                  /\ UNCHANGED <<cases, convs, msgs, clock>>
             ELSE LET r == GetOrCreatePhishingCase(
                               catArg, policy = "forceFresh", synthOk, pick)
                  IN IF r.status # HTTP_OK
                     THEN \* the exception rolls the session back
                          /\ start' = [NoStart EXCEPT !.policy = policy,
                                 !.persona = pid, !.cat = catArg,
                                 !.user = uid, !.matched = candidates # {},
                                 !.status = r.status,
                                 !.synth = r.synth, !.log = r.log,
                                 !.seen = SynthesizedSoFar]
                          /\ UNCHANGED <<cases, convs, msgs, clock>>
                     ELSE LET b == CreateConversationBase(
                                       pid, uid, Some(<<"t">>), r.case,
                                       now, now2)
                          IN /\ cases' = r.cases
                             \* the request commits (get_async_db) before
                             \* the conversation is visible to a later
                             \* transaction, whose now() is later
                             /\ now2 < MaxClock
                             /\ clock' = now2 + 1
                             /\ convs' = b.convs
                             /\ msgs' = b.msgs
                             /\ start' = [policy |-> policy, persona |-> pid,
                                    cat |-> catArg, user |-> uid,
                                    matched |-> candidates # {},
                                    synth |-> r.synth, status |-> HTTP_OK,
                                    conv |-> b.conv, case |-> r.case,
                                    log |-> r.log \o b.log,
                                    seen |-> SynthesizedSoFar]
    /\ UNCHANGED <<apiKey, s3, keySeq, call, eff, nCalls>>


\* ------------------------------------------------------ GeminiService
\* the starting message put in front of the history whether or not the
\* history is empty
BuildContentsAlwaysOpening(startingMessage, hist, userMessage, image) ==
    (IF Truthy(startingMessage)
     THEN <<[role |-> "model", text |-> Val(startingMessage),
             image |-> FALSE]>>
     ELSE <<>>)
    \o [i \in 1..Len(hist) |->
           [role |-> IF msgs[hist[i]].sender = USER THEN "user" ELSE "model",
            text |-> msgs[hist[i]].content, image |-> FALSE]]
    \o <<[role |-> "user", text |-> Val(userMessage),
          image |-> ImageGiven(image) /\ image = "png"]>>

\* get_chat_response steps 2-4: contents_for_generation
BuildContents(startingMessage, hist, userMessage, image) ==
    (IF Truthy(startingMessage) /\ hist = <<>>
     THEN <<[role |-> "model", text |-> Val(startingMessage),
             image |-> FALSE]>>
     ELSE <<>>)
    \o [i \in 1..Len(hist) |->
           [role |-> IF msgs[hist[i]].sender = USER THEN "user" ELSE "model",
            text |-> msgs[hist[i]].content, image |-> FALSE]]
    \o <<[role |-> "user", text |-> Val(userMessage),
          \* an image that does not decode is dropped, the text is kept
          image |-> ImageGiven(image) /\ image = "png"]>>

\* client.models.count_tokens over the contents
CountTokens(contents) == Len(contents)

\* debug_contents: role and text parts of each content
DebugContents(contents) ==
    [i \in 1..Len(contents) |->
        [role |-> contents[i].role, parts |-> <<contents[i].text>>]]

\* --------------------------------------------- POST .../messages/
\* the request worker p has finished, when it had the input of the request
\* that arrives now: the status returned and the number of messages inserted
Served(p, cid, uid, content, image) ==
    IF /\ call[p].pc = "done"
       /\ call[p].conv = cid /\ call[p].user = uid
       /\ call[p].content = content /\ call[p].image = image
    THEN [status |-> call[p].status, wrote |-> eff[p].msgs]
    ELSE NoPrev

\* MessageCreate validation and send_new_message_in_conversation up to the
\* call of the service
SendRequest(p, cid, uid, content, image) ==
    /\ call[p].pc \in {"idle", "done"}
    /\ cid <= Len(convs) + 1      \* an existing id or the next free one
    /\ nCalls < MaxCalls
    /\ nCalls' = nCalls + 1
    /\ LET overlap == \E q \in Procs \ {p} : Active(q) /\ call[q].conv = cid
           c0 == [IdleCall EXCEPT !.conv = cid, !.user = uid,
                     !.content = content, !.image = image,
                     !.overlapped = overlap,
                     !.cutOff = /\ call[p].pc = "idle"
                                /\ call[p].conv = cid
                                /\ call[p].userMsg # 0,
                     !.prev = Served(p, cid, uid, content, image)]
       IN call' = [q \in Procs |->
             IF q = p
             THEN IF IsBlank(content) /\ ~ImageGiven(image)
                  THEN [c0 EXCEPT !.pc = "done",
                                  !.status = HTTP_UNPROCESSABLE]
                  ELSE IF IsBlank(content)
                  THEN [c0 EXCEPT !.pc = "done", !.status = HTTP_BAD_REQUEST]
                  ELSE [c0 EXCEPT !.pc = "called"]
             ELSE IF Active(q) /\ call[q].conv = cid
                  THEN [call[q] EXCEPT !.overlapped = TRUE]
                  ELSE call[q]]
    /\ eff' = [eff EXCEPT ![p] = NoEffect]
    /\ UNCHANGED <<apiKey, cases, convs, msgs, s3, keySeq, clock, start,
                   nStarts>>

\* --------------------------------------------- MessageService
\* send_new_message step 1: resolve the conversation of the requestor
ResolveConversation(p) ==
    /\ call[p].pc = "called"
    /\ LET cid == GetConversation(call[p].conv, call[p].user)
       IN call' = [call EXCEPT ![p] =
             IF cid = 0
             THEN [@ EXCEPT !.pc = "done", !.status = HTTP_NOT_FOUND]
             ELSE [@ EXCEPT !.pc = "resolved",
                            !.convCase = convs[cid].caseId,
                            !.lastAt0 = convs[cid].lastAt]]
    /\ UNCHANGED <<apiKey, cases, convs, msgs, s3, keySeq, clock, nCalls,
                   start, nStarts>>
    /\ Account(p)

\* step 2: the whole history, oldest first
LoadHistory(p) ==
    /\ call[p].pc = "resolved"
    /\ \E history \in GetMessagesByConversation(call[p].conv) :
          call' = [call EXCEPT ![p].pc = "loaded", ![p].loaded = TRUE,
                      ![p].hist = history]
    /\ UNCHANGED <<apiKey, cases, convs, msgs, s3, keySeq, clock, nCalls,
                   start, nStarts>>
    /\ Account(p)

\* a random case applied whether or not the conversation has one
BindScenarioAlways(p) ==
    /\ call[p].pc = "loaded"
    /\ LET cid == call[p].conv
           candidates == RandomCaseCandidates(None)
       IN IF candidates # {}
          THEN \E pick \in candidates :
                  /\ convs' = [convs EXCEPT ![cid].caseId = pick]
                  /\ call' = [call EXCEPT ![p].pc = "ready", ![p].case = pick]
          ELSE /\ convs' = convs
               /\ call' = [call EXCEPT ![p].pc = "ready",
                              ![p].case = call[p].convCase]
    /\ UNCHANGED <<apiKey, cases, msgs, s3, keySeq, clock, nCalls, start,
                   nStarts>>
    /\ Account(p)

\* step 2, lines 107-115: a conversation loaded without a phishing case gets
\* a random one, committed at once
BindScenario(p) ==
    /\ call[p].pc = "loaded"
    /\ LET cid == call[p].conv
           candidates == RandomCaseCandidates(None)
       IN IF call[p].convCase = NoCase /\ candidates # {}
          THEN \E pick \in candidates :
                  /\ convs' = [convs EXCEPT ![cid].caseId = pick]
                  /\ call' = [call EXCEPT ![p].pc = "ready", ![p].case = pick]
          ELSE /\ convs' = convs
               /\ call' = [call EXCEPT ![p].pc = "ready",
                              ![p].case = call[p].convCase]
    /\ UNCHANGED <<apiKey, cases, msgs, s3, keySeq, clock, nCalls, start,
                   nStarts>>
    /\ Account(p)

\* the request of step 3 as the gateway builds it
Asked(p) ==
    [call[p] EXCEPT !.gwCalls = @ + 1,
        !.sent = BuildContents(StartingMessage(convs[call[p].conv].persona),
                               call[p].hist, call[p].content, call[p].image)]

\* the user message saved before the gateway is asked, as the failure finds it
GatewayFailsAfterUserTurn(p, kind, gwStatus) ==
    /\ call[p].pc = "ready"
    /\ msgs' = Append(msgs, NewMessage(call[p].conv, USER, call[p].content,
                                       None, NoKey, clock))
    /\ convs' = TouchLastMessageAt(convs, call[p].conv, Len(msgs'), msgs')
    /\ call' = [call EXCEPT ![p] =
          [(IF kind = "disabled" THEN [@ EXCEPT !.gwCalls = @ + 1]
            ELSE Asked(p))
           EXCEPT !.pc = "done", !.gwError = kind, !.gwStatus = gwStatus,
                  !.status = HTTP_UNAVAILABLE]]
    /\ UNCHANGED <<apiKey, cases, s3, keySeq, clock, nCalls, start, nStarts>>
    /\ Account(p)

\* the exception of the gateway passed on with its own status
GatewayFailsSameStatus(p, kind, gwStatus) ==
    /\ call[p].pc = "ready"
    /\ call' = [call EXCEPT ![p] =
          [(IF kind = "disabled" THEN [@ EXCEPT !.gwCalls = @ + 1]
            ELSE Asked(p))
           EXCEPT !.pc = "done", !.gwError = kind, !.gwStatus = gwStatus,
                  !.status = IF gwStatus = 0 THEN HTTP_UNAVAILABLE
                             ELSE gwStatus]]
    /\ UNCHANGED <<apiKey, cases, convs, msgs, s3, keySeq, clock, nCalls,
                   start, nStarts>>
    /\ Account(p)

\* step 3, failing; kind is the way get_chat_response failed and gwStatus the
\* status of the exception it raised (0: ConnectionError). Lines 130-134 turn
\* each of them into 503.
GatewayFails(p, kind, gwStatus) ==
    /\ call[p].pc = "ready"
    /\ call' = [call EXCEPT ![p] =
          [(IF kind = "disabled" THEN [@ EXCEPT !.gwCalls = @ + 1]
            ELSE Asked(p))
           EXCEPT !.pc = "done", !.gwError = kind, !.gwStatus = gwStatus,
                  !.status = HTTP_UNAVAILABLE]]
    /\ UNCHANGED <<apiKey, cases, convs, msgs, s3, keySeq, clock, nCalls,
                   start, nStarts>>
    /\ Account(p)

\* is_available() is false: ConnectionError
GatewayDisabled(p) == ~apiKey /\ GatewayFails(p, "disabled", 0)

\* GoogleAPICallError / RetryError: HTTPException 503
GatewayProviderError(p) ==
    apiKey /\ GatewayFails(p, "provider", HTTP_UNAVAILABLE)

\* json.JSONDecodeError: HTTPException 500
GatewayBadJson(p) == apiKey /\ GatewayFails(p, "json", HTTP_INTERNAL_ERROR)

\* GeminiChatResponse(**json_response) rejects the reply: HTTPException 500
GatewaySchemaViolation(p) ==
    apiKey /\ GatewayFails(p, "schema", HTTP_INTERNAL_ERROR)

\* step 3, succeeding: answer is the JSON the model returned
GatewayReplies(p, answer) ==
    /\ call[p].pc = "ready"
    /\ apiKey
    /\ call' = [call EXCEPT ![p] =
          [Asked(p) EXCEPT !.pc = "replied",
              !.reply = Some([response |-> answer.response,
                  suggested_user_questions |->
                      answer.suggested_user_questions,
                  progress_check |-> answer.progress_check,
                  token_usage |-> CountTokens(Asked(p).sent)])]]
    /\ UNCHANGED <<apiKey, cases, convs, msgs, s3, keySeq, clock, nCalls,
                   start, nStarts>>
    /\ Account(p)

\* the image uploaded before the gateway is asked
UploadImageBeforeReply(p, putOk) ==
    /\ \/ /\ call[p].pc = "ready"
          /\ call[p].image = "png"
          /\ call[p].puts = 0
          /\ keySeq' = keySeq + 1
          /\ s3' = IF putOk THEN s3 \cup {keySeq + 1} ELSE s3
          /\ call' = [call EXCEPT ![p].puts = @ + 1,
                         ![p].putKey = keySeq + 1,
                         ![p].key = IF putOk THEN keySeq + 1 ELSE NoKey]
       \/ /\ call[p].pc = "replied"
          /\ call' = [call EXCEPT ![p].pc = "uploaded"]
          /\ UNCHANGED <<s3, keySeq>>
    /\ UNCHANGED <<apiKey, cases, convs, msgs, clock, nCalls, start, nStarts>>
    /\ Account(p)

\* the exception of the upload passed on to the caller
UploadImageFailureAborts(p, putOk) ==
    /\ call[p].pc = "replied"
    /\ IF call[p].image # "png"
       THEN /\ call' = [call EXCEPT ![p].pc = "uploaded"]
            /\ UNCHANGED <<s3, keySeq>>
       ELSE LET filename == keySeq + 1
            IN /\ keySeq' = filename
               /\ s3' = IF putOk THEN s3 \cup {filename} ELSE s3
               /\ call' = [call EXCEPT
                     ![p].pc = IF putOk THEN "uploaded" ELSE "done",
                     ![p].status = IF putOk THEN 0 ELSE HTTP_INTERNAL_ERROR,
                     ![p].puts = @ + 1, ![p].putKey = filename,
                     ![p].key = IF putOk THEN filename ELSE NoKey]
    /\ UNCHANGED <<apiKey, cases, convs, msgs, clock, nCalls, start, nStarts>>
    /\ Account(p)

\* s3_image_key assigned before the upload is tried
UploadImageKeyKeptOnFailure(p, putOk) ==
    /\ call[p].pc = "replied"
    /\ IF call[p].image # "png"
       THEN /\ call' = [call EXCEPT ![p].pc = "uploaded"]
            /\ UNCHANGED <<s3, keySeq>>
       ELSE LET filename == keySeq + 1
            IN /\ keySeq' = filename
               /\ s3' = IF putOk THEN s3 \cup {filename} ELSE s3
               /\ call' = [call EXCEPT ![p].pc = "uploaded",
                              ![p].puts = @ + 1, ![p].putKey = filename,
                              ![p].key = filename]
    /\ UNCHANGED <<apiKey, cases, convs, msgs, clock, nCalls, start, nStarts>>
    /\ Account(p)

\* step 4, lines 137-150: upload of the image; putOk is the outcome of
\* put_object
UploadImage(p, putOk) ==
    /\ call[p].pc = "replied"
    /\ IF ~ImageGiven(call[p].image)
       THEN /\ call' = [call EXCEPT ![p].pc = "uploaded"]
            /\ UNCHANGED <<s3, keySeq>>
       ELSE IF call[p].image # "png"
       THEN \* b64decode raises, the key stays None
            /\ call' = [call EXCEPT ![p].pc = "uploaded"]
            /\ UNCHANGED <<s3, keySeq>>
       ELSE LET filename == keySeq + 1
            IN /\ keySeq' = filename
               /\ s3' = IF putOk THEN s3 \cup {filename} ELSE s3
               /\ call' = [call EXCEPT ![p].pc = "uploaded",
                              ![p].puts = @ + 1, ![p].putKey = filename,
                              ![p].key = IF putOk THEN filename ELSE NoKey]
    /\ UNCHANGED <<apiKey, cases, convs, msgs, clock, nCalls, start, nStarts>>
    /\ Account(p)

\* the user message saved as soon as the context is loaded, before the
\* gateway is asked
PersistUserTurnBeforeReply(p, now) ==
    /\ now \in Nows
    /\ \/ /\ call[p].pc = "ready"
          /\ call[p].userMsg = 0
          /\ clock' = now
          /\ msgs' = Append(msgs, NewMessage(call[p].conv, USER,
                                 call[p].content, None, NoKey, now))
          /\ call' = [call EXCEPT ![p].userMsg = Len(msgs')]
       \/ /\ call[p].pc = "uploaded"
          /\ call[p].userMsg # 0
          /\ now = clock
          /\ call' = [call EXCEPT ![p].pc = "userSaved"]
          /\ UNCHANGED <<msgs, clock>>
    /\ UNCHANGED <<apiKey, cases, convs, s3, keySeq, nCalls, start, nStarts>>
    /\ Account(p)

\* the user message saved only while the conversation still holds exactly the
\* history the request loaded
PersistUserTurnIfUnchanged(p, now) ==
    /\ call[p].pc = "uploaded"
    /\ MsgIdsOf(call[p].conv) = {call[p].hist[i] : i \in 1..Len(call[p].hist)}
    /\ now \in Nows
    /\ clock' = now
    /\ msgs' = Append(msgs, NewMessage(call[p].conv, USER, call[p].content,
                                       None, call[p].key, now))
    /\ call' = [call EXCEPT ![p].pc = "userSaved", ![p].userMsg = Len(msgs')]
    /\ UNCHANGED <<apiKey, cases, convs, s3, keySeq, nCalls, start, nStarts>>
    /\ Account(p)

\* step 4, lines 153-160: the user message
PersistUserTurn(p, now) ==
    /\ call[p].pc = "uploaded"
    /\ now \in Nows
    /\ clock' = now
    /\ msgs' = Append(msgs, NewMessage(call[p].conv, USER, call[p].content,
                                       None, call[p].key, now))
    /\ call' = [call EXCEPT ![p].pc = "userSaved", ![p].userMsg = Len(msgs')]
    /\ UNCHANGED <<apiKey, cases, convs, s3, keySeq, nCalls, start, nStarts>>
    /\ Account(p)

\* line 163
TouchAfterUserTurn(p) ==
    /\ call[p].pc = "userSaved"
    /\ convs' = TouchLastMessageAt(convs, call[p].conv, call[p].userMsg, msgs)
    /\ call' = [call EXCEPT ![p].pc = "userTouched"]
    /\ UNCHANGED <<apiKey, cases, msgs, s3, keySeq, clock, nCalls, start,
                   nStarts>>
    /\ Account(p)

\* the AI message saved with the sender type of the user
PersistAiTurnAsUser(p, now) ==
    /\ call[p].pc = "userTouched"
    /\ now \in Nows
    /\ clock' = now
    /\ msgs' = Append(msgs, NewMessage(call[p].conv, USER,
                          Some(Val(call[p].reply).response),
                          Some(Val(call[p].reply).token_usage), NoKey, now))
    /\ call' = [call EXCEPT ![p].pc = "aiSaved", ![p].aiMsg = Len(msgs')]
    /\ UNCHANGED <<apiKey, cases, convs, s3, keySeq, nCalls, start, nStarts>>
    /\ Account(p)

\* step 5, lines 166-173: the AI message
PersistAiTurn(p, now) ==
    /\ call[p].pc = "userTouched"
    /\ now \in Nows
    /\ clock' = now
    /\ msgs' = Append(msgs, NewMessage(call[p].conv, AI,
                          Some(Val(call[p].reply).response),
                          Some(Val(call[p].reply).token_usage), NoKey, now))
    /\ call' = [call EXCEPT ![p].pc = "aiSaved", ![p].aiMsg = Len(msgs')]
    /\ UNCHANGED <<apiKey, cases, convs, s3, keySeq, nCalls, start, nStarts>>
    /\ Account(p)

\* MessageResponse.model_validate(db_message)
MessageResponse(mid) ==
    [id |-> mid, conversation_id |-> msgs[mid].conv,
     sender_type |-> msgs[mid].sender, content |-> msgs[mid].content,
     gemini_token_usage |-> msgs[mid].tokens,
     created_at |-> msgs[mid].createdAt, image_key |-> msgs[mid].imageKey]

\* step 6 with the flag left at a fixed value
ChatMessageResponseNeverReady(p) ==
    [user_message |-> MessageResponse(call[p].userMsg),
     ai_message |-> MessageResponse(call[p].aiMsg),
     suggested_user_questions |->
         Val(call[p].reply).suggested_user_questions,
     is_ready_to_move_on |-> FALSE,
     debug_request_contents |-> DebugContents(call[p].sent)]

\* step 6, lines 178-184: ChatMessageResponse
ChatMessageResponse(p) ==
    [user_message |-> MessageResponse(call[p].userMsg),
     ai_message |-> MessageResponse(call[p].aiMsg),
     suggested_user_questions |->
         Val(call[p].reply).suggested_user_questions,
     is_ready_to_move_on |->
         Val(call[p].reply).progress_check.is_ready_to_move_on,
     debug_request_contents |-> DebugContents(call[p].sent)]

\* line 175 and step 6: the response
TouchAfterAiTurn(p) ==
    /\ call[p].pc = "aiSaved"
    /\ convs' = TouchLastMessageAt(convs, call[p].conv, call[p].aiMsg, msgs)
    /\ call' = [call EXCEPT ![p].pc = "done", ![p].status = HTTP_OK,
                   ![p].result = Some(ChatMessageResponse(p))]
    /\ UNCHANGED <<apiKey, cases, msgs, s3, keySeq, clock, nCalls, start,
                   nStarts>>
    /\ Account(p)

\* --------------------------------------------- the session of a request
\* every insert and update left in the tables by the request although the
\* worker died before the commit
RollbackKeepsWrites(p) == [msgs |-> msgs, convs |-> convs]

\* the tables after the rollback of the session of worker p: save_message
\* and the update of last_message_at only flush, get_async_db commits once
\* when the endpoint has returned; the binding was committed on its own
Rollback(p) ==
    [msgs |-> SubSeq(msgs, 1, Len(msgs) - eff[p].msgs),
     convs |-> IF eff[p].touches > 0
               THEN [convs EXCEPT ![call[p].conv].lastAt = call[p].lastAt0]
               ELSE convs]

\* the worker serving a request is killed (it did not respond within the
\* timeout) and restarted: the database rolls the open transaction back and
\* no response is sent. The restarted worker is idle; conv and userMsg keep
\* what the request it was serving had reached
Crash(p) ==
    /\ Active(p)
    /\ \A q \in Procs \ {p} : ~Active(q)
    /\ msgs' = Rollback(p).msgs
    /\ convs' = Rollback(p).convs
    /\ call' = [call EXCEPT ![p] =
          [IdleCall EXCEPT !.conv = call[p].conv,
                           !.userMsg = call[p].userMsg]]
    /\ eff' = [eff EXCEPT ![p].msgs = 0, ![p].touches = 0]
    /\ UNCHANGED <<apiKey, cases, s3, keySeq, clock, nCalls, start, nStarts>>

\* ------------------------------------------------------- specifications
\* the steps of the request served by worker p, after SendRequest
SendStep(p) ==
    \/ ResolveConversation(p)
    \/ LoadHistory(p)
    \/ BindScenario(p)
    \/ GatewayDisabled(p)
    \/ GatewayProviderError(p)
    \/ GatewayBadJson(p)
    \/ GatewaySchemaViolation(p)
    \/ \E answer \in GeminiAnswers : GatewayReplies(p, answer)
    \/ \E putOk \in BOOLEAN : UploadImage(p, putOk)
    \/ \E now \in 0..MaxClock : PersistUserTurn(p, now)
    \/ TouchAfterUserTurn(p)
    \/ \E now \in 0..MaxClock : PersistAiTurn(p, now)
    \/ TouchAfterAiTurn(p)

\* ids the random lookup may return, and ids requests may name
CaseIds == 0..(MaxCases + MaxStarts)
RequestedConversationIds == 1..(MaxStarts + 1)

\* StartConversation of user 1 and the administrator's case creation alone,
\* with every persona, policy and category a request may name and every
\* provider outcome
NextStart ==
    \/ \E cat \in CategoryTable : CreateNewCase(cat)
    \/ \E uid \in {1}, pid \in RequestedPersonaIds, policy \in Policies,
          cat \in CategoryEnum, synthOk \in BOOLEAN, pick \in CaseIds,
          now \in 0..MaxClock, now2 \in 0..MaxClock :
          StartConversation(uid, pid, policy, cat, synthOk, pick, now, now2)

SpecStart == Init /\ [][NextStart]_vars

\* a request of the administrator or a StartConversation of user 1 for an
\* existing persona, served while no SendMessage request is being served
CreateNewCaseBetweenCalls(cat) ==
    /\ \A p \in Procs : ~Active(p)
    /\ CreateNewCase(cat)

StartConversationBetweenCalls(pid, policy, pick, now, now2) ==
    /\ \A p \in Procs : ~Active(p)
    /\ Len(convs) < MaxConvs
    /\ StartConversation(1, pid, policy, "GovScam", TRUE, pick, now, now2)

\* Requests served one at a time: SendMessage with every request body and
\* both requestors, on conversations user 1 started
Next ==
    \/ \E cat \in CategoryTable : CreateNewCaseBetweenCalls(cat)
    \/ \E pid \in PersonaIds, policy \in {"none", "category"},
          pick \in CaseIds, now \in 0..MaxClock, now2 \in 0..MaxClock :
          StartConversationBetweenCalls(pid, policy, pick, now, now2)
    \/ \E cid \in RequestedConversationIds, uid \in Users,
          content \in Contents, image \in Images :
          SendRequest(1, cid, uid, content, image)
    \/ SendStep(1)
    \/ Crash(1)

Spec == Init /\ [][Next]_vars

\* conversations of user 1 started, under policy none or forceFresh, before
\* the first SendMessage request arrives
CreateNewCaseBeforeCalls(cat) ==
    /\ nCalls = 0
    /\ CreateNewCase(cat)

StartConversationBeforeCalls(pid, policy, pick, now, now2) ==
    /\ nCalls = 0
    /\ StartConversation(1, pid, policy, "GovScam", TRUE, pick, now, now2)

\* the one request a worker serves: a text of user 1
SendRequestOnce(p, cid) ==
    /\ call[p].pc = "idle"
    /\ SendRequest(p, cid, 1, Some(<<"o", "k">>), NoImage)

\* Two workers serving one SendMessage request each, at the same time, on the
\* same conversation or on two
NextPar ==
    \/ \E cat \in CategoryTable : CreateNewCaseBeforeCalls(cat)
    \/ \E pid \in PersonaIds, policy \in {"none", "forceFresh"},
          pick \in CaseIds, now \in 0..MaxClock, now2 \in 0..MaxClock :
          StartConversationBeforeCalls(pid, policy, pick, now, now2)
    \/ \E p \in Procs, cid \in RequestedConversationIds :
          SendRequestOnce(p, cid)
    \/ \E p \in Procs : SendStep(p)

SpecPar == Init /\ [][NextPar]_vars

\* get_chat_response alone, on every history send_new_message may hand to it:
\* up to MaxHistory messages of the three sender types, oldest first, for a
\* persona with or without a starting message
SenderTypes == {USER, AI, SYSTEM}

HistoryRows ==
    [conv : {1}, sender : SenderTypes, content : {<<"a">>}, tokens : {None},
     imageKey : {NoKey}, createdAt : 0..MaxClock]

Histories ==
    UNION {{h \in [1..n -> HistoryRows] :
               \A i \in 1..n : \A j \in 1..n :
                   i < j => h[i].createdAt <= h[j].createdAt} :
           n \in 0..MaxHistory}

InitContents ==
    /\ apiKey \in BOOLEAN
    /\ cases = <<>>
    /\ convs \in {<<[user |-> 1, persona |-> pid, title |-> Some(<<"t">>),
                     caseId |-> NoCase, createdAt |-> 0, lastAt |-> 0]>> :
                   pid \in PersonaIds}
    /\ msgs \in Histories
    /\ s3 = {}
    /\ keySeq = 0
    /\ clock = MaxClock
    /\ call \in {[p \in Procs |->
                     IF p = 1
                     THEN [IdleCall EXCEPT !.pc = "ready", !.conv = 1,
                              !.user = 1, !.content = Some(<<"o", "k">>),
                              !.image = image, !.hist = history,
                              !.loaded = TRUE]
                     ELSE IdleCall] :
                  image \in Images,
                  history \in GetMessagesByConversation(1)}
    /\ eff = [p \in Procs |-> NoEffect]
    /\ nCalls = 1
    /\ start = NoStart
    /\ nStarts = 0

NextContents ==
    \/ GatewayDisabled(1)
    \/ GatewayProviderError(1)
    \/ GatewayBadJson(1)
    \/ GatewaySchemaViolation(1)
    \/ \E answer \in GeminiAnswers : GatewayReplies(1, answer)

SpecContents == InitContents /\ [][NextContents]_vars

\* --------------------------------------------------------------- claims
Done(p) == call[p].pc = "done"
Range(seq) == {seq[i] : i \in 1..Len(seq)}
InvalidInput == {HTTP_BAD_REQUEST, HTTP_UNPROCESSABLE}

\* the conversation the request names does not exist or is not the
\* requestor's
NotAccessible(p) ==
    \/ call[p].conv \notin 1..Len(convs)
    \/ convs[call[p].conv].user # call[p].user

\* C1: a SendMessage request whose gateway call failed as provider-unavailable
\* (GoogleAPICallError / RetryError) has ended with 503 Service Unavailable
\* and has inserted no message and changed no conversation's last_message_at.
C1_ProviderUnavailableLeavesMessagesAlone ==
    \A p \in Procs :
        (Done(p) /\ call[p].gwError = "provider") =>
            /\ call[p].status = HTTP_UNAVAILABLE
            /\ eff[p].msgs = 0
            /\ eff[p].touches = 0
            /\ call[p].userMsg = 0 /\ call[p].aiMsg = 0

\* the provider failed on a conversation that already has a message
C1_Witness ==
    \E p \in Procs :
        /\ Done(p) /\ call[p].gwError = "provider"
        /\ call[p].hist # <<>>
        /\ call[p].gwCalls = 1

\* C2: a SendMessage request that ended in a gateway failure has written
\* nothing at all: no message, no last_message_at, no conversation field (the
\* applied phishing case included) and no object.
C2_FailedCallWritesNothing ==
    \A p \in Procs :
        (Done(p) /\ call[p].gwError # "") => eff[p] = NoEffect

\* C3: a successful SendMessage request that did not overlap another one on
\* the conversation, and is the last one on it, has added exactly two
\* messages to those it loaded: the user message and then the AI message; and
\* last_message_at is the created_at of the AI message.
C3_SuccessAddsUserThenAi ==
    \A p \in Procs :
        (/\ Done(p) /\ call[p].status = HTTP_OK
         /\ ~call[p].overlapped
         /\ \A i \in MsgIdsOf(call[p].conv) : i <= call[p].aiMsg) =>
            LET u == call[p].userMsg
                a == call[p].aiMsg
            IN /\ eff[p].msgs = 2
               /\ MsgIdsOf(call[p].conv) = Range(call[p].hist) \cup {u, a}
               /\ u \notin Range(call[p].hist) /\ a \notin Range(call[p].hist)
               /\ u < a
               /\ msgs[u].sender = USER /\ msgs[a].sender = AI
               /\ msgs[u].createdAt <= msgs[a].createdAt
               /\ convs[call[p].conv].lastAt = msgs[a].createdAt

\* an exchange succeeded on a conversation with history and the clock
\* advanced between its two messages
C3_Witness ==
    \E p \in Procs :
        /\ Done(p) /\ call[p].status = HTTP_OK /\ ~call[p].overlapped
        /\ call[p].hist # <<>>
        /\ msgs[call[p].userMsg].createdAt < msgs[call[p].aiMsg].createdAt
        /\ \A i \in MsgIdsOf(call[p].conv) : i <= call[p].aiMsg

\* C4: put_object is called at most once per request and only after the
\* gateway replied; a request whose gateway call failed never called it; and
\* when the object was stored, the user message carries exactly its key.
C4_PutOnlyAfterReplyAtMostOnce ==
    \A p \in Procs :
        /\ call[p].puts <= 1
        /\ call[p].puts > 0 => ~IsNone(call[p].reply)
        /\ (Done(p) /\ call[p].gwError # "") =>
               call[p].puts = 0 /\ eff[p].objs = 0
        /\ (call[p].userMsg # 0 /\ call[p].puts > 0
            /\ call[p].putKey \in s3) =>
               /\ call[p].puts = 1
               /\ call[p].putKey # NoKey
               /\ msgs[call[p].userMsg].imageKey = call[p].putKey

\* an exchange with an image succeeded and its upload succeeded
C4_Witness ==
    \E p \in Procs :
        /\ Done(p) /\ call[p].status = HTTP_OK
        /\ ImageGiven(call[p].image)
        /\ call[p].puts = 1 /\ call[p].putKey \in s3
        /\ msgs[call[p].userMsg].imageKey = call[p].putKey

\* C5: a SendMessage request with no text (absent, empty or blanks only) and
\* no image is rejected as invalid input at once: it never resolves the
\* conversation, loads history, asks the gateway, uploads or writes.
C5_EmptyTurnRejected ==
    \A p \in Procs :
        (/\ call[p].pc # "idle"
         /\ IsNone(call[p].content) \/ Strip(Val(call[p].content)) = <<>>
         /\ ~ImageGiven(call[p].image)) =>
            /\ Done(p)
            /\ call[p].status \in InvalidInput
            /\ ~call[p].loaded
            /\ call[p].gwCalls = 0
            /\ call[p].puts = 0
            /\ eff[p] = NoEffect

\* a request of blanks only, without image, on the requestor's own conversation
C5_Witness ==
    \E p \in Procs :
        /\ Done(p)
        /\ call[p].content = Some(<<" ">>)
        /\ call[p].image = NoImage
        /\ ~NotAccessible(p)
        /\ call[p].status \in InvalidInput

\* C6: a reply that is not JSON or violates the reply schema makes SendMessage
\* fail with the status of a malformed response (the 500 the gateway raised),
\* and nothing is persisted.
C6_MalformedReplyReported ==
    \A p \in Procs :
        (Done(p) /\ call[p].gwError \in {"json", "schema"}) =>
            /\ call[p].status = HTTP_INTERNAL_ERROR
            /\ eff[p].msgs = 0 /\ eff[p].touches = 0

\* C6 amended: a reply that is not JSON or violates the reply schema makes
\* the gateway raise 500, which SendMessage reports as 503 Service
\* Unavailable, the status of every gateway failure; no user message, no AI
\* message and no last_message_at update is persisted.
C6_MalformedReplyReportedUnavailable ==
    \A p \in Procs :
        (Done(p) /\ call[p].gwError \in {"json", "schema"}) =>
            /\ call[p].gwStatus = HTTP_INTERNAL_ERROR
            /\ call[p].status = HTTP_UNAVAILABLE
            /\ eff[p].msgs = 0 /\ eff[p].touches = 0
            /\ call[p].userMsg = 0 /\ call[p].aiMsg = 0

\* the reply violated the schema on a conversation that has a message
C6_Witness ==
    \E p \in Procs :
        /\ Done(p) /\ call[p].gwError = "schema"
        /\ call[p].gwCalls = 1
        /\ call[p].hist # <<>>

\* C7: a SendMessage request on a conversation that does not exist or is not
\* the requestor's ends with 404 Not Found.
C7_InaccessibleIsNotFound ==
    \A p \in Procs :
        (Done(p) /\ NotAccessible(p)) => call[p].status = HTTP_NOT_FOUND

\* C7 amended: a SendMessage request on a conversation that does not exist or
\* is not the requestor's never gets past resolving the conversation: it ends
\* with 404 Not Found when its body is valid and as invalid input otherwise
\* (the body is checked first), without loading history, asking the gateway,
\* uploading, or writing anything.
C7_InaccessibleRejectedUntouched ==
    \A p \in Procs :
        (call[p].pc # "idle" /\ NotAccessible(p)) =>
            /\ call[p].pc \in {"called", "done"}
            /\ Done(p) =>
                  IF IsBlank(call[p].content)
                  THEN call[p].status \in InvalidInput
                  ELSE call[p].status = HTTP_NOT_FOUND
            /\ ~call[p].loaded
            /\ call[p].gwCalls = 0
            /\ call[p].puts = 0
            /\ eff[p] = NoEffect

\* user 2 asked with a valid body for a conversation of user 1 that has a
\* message, and got 404
C7_Witness ==
    \E p \in Procs :
        /\ Done(p) /\ call[p].status = HTTP_NOT_FOUND
        /\ call[p].conv \in 1..Len(convs)
        /\ convs[call[p].conv].user # call[p].user
        /\ MsgIdsOf(call[p].conv) # {}
        /\ ImageGiven(call[p].image)

\* the last StartConversation was served
Started == start.policy # ""

\* C8: StartConversation calls the synthesizer exactly when the policy is
\* forceFresh, or the policy is category and no stored case has the category.
C8_SynthesizerIffPolicy ==
    Started =>
        (start.synth <=>
            \/ start.policy = "forceFresh"
            \/ start.policy = "category" /\ ~start.matched)

\* C8 amended: for an existing persona and a category that has a row in the
\* category table, StartConversation calls the synthesizer exactly when the
\* policy is forceFresh, or the policy is category and no stored case has the
\* category; for a missing persona or a category without a row it is never
\* called, and under policy none it is never called.
C8_SynthesizerIffPolicyWhenResolvable ==
    Started =>
        /\ start.synth <=>
              /\ start.persona \in PersonaIds
              /\ start.policy # "none"
              /\ Val(start.cat) \in CategoryTable
              /\ \/ start.policy = "forceFresh"
                 \/ start.policy = "category" /\ ~start.matched
        /\ start.policy = "none" => ~start.synth

\* forceFresh synthesized although a case of the category was stored
C8_Witness ==
    /\ Started
    /\ start.policy = "forceFresh" /\ start.matched /\ start.synth
    /\ start.status = HTTP_OK

\* C9: after a successful StartConversation the new conversation holds, for a
\* persona with a starting message, exactly one message: sender ai, the
\* starting message as content, token usage 0, and last_message_at is that
\* message's created_at; for a persona without one it holds no message.
C9_OpeningLineSeeded ==
    (Started /\ start.status = HTTP_OK) =>
        LET ids == MsgIdsOf(start.conv)
        IN IF Truthy(StartingMessage(start.persona))
           THEN /\ Cardinality(ids) = 1
                /\ \A m \in ids :
                      /\ msgs[m].sender = AI
                      /\ msgs[m].content = Val(StartingMessage(start.persona))
                      /\ msgs[m].tokens = Some(0)
                      /\ msgs[m].imageKey = NoKey
                      /\ convs[start.conv].lastAt = msgs[m].createdAt
           ELSE ids = {}

\* a conversation was seeded after the clock had advanced past its creation
C9_Witness ==
    /\ Started /\ start.status = HTTP_OK
    /\ Truthy(StartingMessage(start.persona))
    /\ \E m \in MsgIdsOf(start.conv) :
          msgs[m].createdAt > convs[start.conv].createdAt

\* C10: a StartConversation that fails returns 404 when the persona does not
\* exist or the category has no row, and 500 (generation failed) when the
\* synthesizer fails; and it adds no conversation and no message.
C10_FailedStartLeavesNoTrace ==
    [][nStarts' # nStarts =>
          /\ start'.persona \notin PersonaIds =>
                start'.status = HTTP_NOT_FOUND
          /\ (/\ start'.persona \in PersonaIds
              /\ start'.policy # "none"
              /\ Val(start'.cat) \notin CategoryTable) =>
                start'.status = HTTP_NOT_FOUND
          /\ (start'.synth /\ start'.case = NoCase) =>
                start'.status = HTTP_INTERNAL_ERROR
          /\ start'.status # HTTP_OK =>
                /\ start'.status \in {HTTP_NOT_FOUND, HTTP_INTERNAL_ERROR}
                /\ convs' = convs
                /\ msgs' = msgs
          /\ start'.status = HTTP_OK =>
                Len(convs') = Len(convs) + 1]_vars

\* the synthesizer failed for a known category and no conversation exists
C10_Witness ==
    /\ Started
    /\ start.status = HTTP_INTERNAL_ERROR /\ start.synth
    /\ start.persona \in PersonaIds
    /\ convs = <<>> /\ msgs = <<>>

\* C11: when the gateway replied to a request with an image and put_object
\* failed, the request goes on and ends successfully: the user message and
\* the AI message are both saved, the user message has no image key, and no
\* error status is returned.
C11_UploadFailureSwallowed ==
    \A p \in Procs :
        (call[p].puts = 1 /\ call[p].putKey \notin s3) =>
            /\ call[p].status \in {0, HTTP_OK}
            /\ Done(p) =>
                  /\ call[p].status = HTTP_OK
                  /\ eff[p].msgs = 2 /\ eff[p].objs = 0
                  /\ call[p].userMsg # 0 /\ call[p].aiMsg # 0
                  /\ msgs[call[p].userMsg].sender = USER
                  /\ msgs[call[p].userMsg].conv = call[p].conv
                  /\ msgs[call[p].userMsg].imageKey = NoKey
                  /\ msgs[call[p].aiMsg].sender = AI
                  /\ msgs[call[p].aiMsg].conv = call[p].conv

\* a request with an image ended after its upload had failed
C11_Witness ==
    \E p \in Procs :
        /\ Done(p) /\ call[p].image = "png"
        /\ call[p].puts = 1 /\ call[p].putKey \notin s3
        /\ call[p].aiMsg # 0

\* C12: in every state the messages of one conversation have pairwise
\* distinct created_at values that increase in insertion order, so ORDER BY
\* created_at returns them in the order they were inserted.
C12_CreationTimesStrictlyIncrease ==
    \A i, j \in 1..Len(msgs) :
        (i < j /\ msgs[i].conv = msgs[j].conv) =>
            msgs[i].createdAt < msgs[j].createdAt

\* C13: a SendMessage request that succeeds after the same request had
\* failed leaves the conversation with exactly one user message and one AI
\* message more than before the two requests: the failed one inserted
\* nothing, and the messages are those loaded plus the two of the successful
\* request.
C13_RetryAfterFailureAddsOneExchange ==
    \A p \in Procs :
        (/\ Done(p) /\ call[p].status = HTTP_OK
         /\ call[p].prev.status \notin {0, HTTP_OK}
         /\ ~call[p].overlapped) =>
            LET new == MsgIdsOf(call[p].conv) \ Range(call[p].hist)
            IN /\ call[p].prev.wrote = 0
               /\ eff[p].msgs = 2
               /\ new = {call[p].userMsg, call[p].aiMsg}
               /\ Cardinality({i \in new : msgs[i].sender = USER}) = 1
               /\ Cardinality({i \in new : msgs[i].sender = AI}) = 1
               /\ \A i \in Range(call[p].hist) : i < call[p].userMsg

\* the gateway failed for a request and replied when the request was repeated
C13_Witness ==
    \E p \in Procs :
        /\ Done(p) /\ call[p].status = HTTP_OK
        /\ call[p].prev.status = HTTP_UNAVAILABLE
        /\ call[p].hist # <<>>

\* C14: a SendMessage request with an image and no text (absent, empty or
\* blanks only) is not rejected as invalid input.
C14_ImageOnlyAccepted ==
    \A p \in Procs :
        (/\ call[p].pc # "idle"
         /\ IsBlank(call[p].content)
         /\ ImageGiven(call[p].image)) =>
            call[p].status \notin InvalidInput

\* C15: a case generated under policy category is stored (create_phishing_case)
\* before it is bound, so it is reused: once a category start has generated a
\* case for a category, a later successful category start for that category
\* binds a stored case of the category, calls no synthesizer and stores
\* nothing; and every successful forceFresh start appends exactly one case, of
\* the requested category, to the store.
C15_SynthesizedCaseReused ==
    [][nStarts' # nStarts =>
          /\ (/\ start'.policy = "category" /\ start'.status = HTTP_OK
              /\ Val(start'.cat) \in start'.seen) =>
                /\ ~start'.synth
                /\ cases' = cases
                /\ start'.case \in 1..Len(cases)
                /\ cases[start'.case].cat = Val(start'.cat)
                /\ convs'[start'.conv].caseId = start'.case
          /\ (/\ start'.policy = "category" /\ start'.status = HTTP_OK
              /\ start'.synth) =>
                /\ cases' = Append(cases, [cat |-> Val(start'.cat)])
                /\ convs'[start'.conv].caseId = Len(cases')
                /\ \E i, j \in 1..Len(start'.log) :
                      /\ i < j
                      /\ start'.log[i] = "createCase"
                      /\ start'.log[j] = "bind"
          /\ (start'.policy = "forceFresh" /\ start'.status = HTTP_OK) =>
                /\ cases' = Append(cases, [cat |-> Val(start'.cat)])
                /\ convs'[start'.conv].caseId = Len(cases')]_vars

\* a category start reused the case an earlier category start had generated
C15_Witness ==
    /\ Started
    /\ start.policy = "category" /\ start.status = HTTP_OK
    /\ ~start.synth
    /\ Val(start.cat) \in start.seen
    /\ convs[start.conv].caseId \in 1..Len(cases)

\* C16: the case a successful StartConversation binds matches its policy:
\* under category and forceFresh it is a stored case whose category is the
\* requested one; under none it is some stored case when the store holds one,
\* and the conversation has no case exactly when the store is empty.
C16_BoundCaseMatchesPolicy ==
    [][(nStarts' # nStarts /\ start'.status = HTTP_OK) =>
          LET bound == convs'[start'.conv].caseId
          IN /\ start'.conv = Len(convs) + 1
             /\ Len(convs') = Len(convs) + 1
             /\ start'.policy \in {"category", "forceFresh"} =>
                   /\ bound \in 1..Len(cases')
                   /\ cases'[bound].cat = Val(start'.cat)
             /\ start'.policy = "none" =>
                   /\ cases' = cases
                   /\ (bound = NoCase) <=> (cases = <<>>)
                   /\ bound # NoCase => bound \in 1..Len(cases)]_vars

\* a start under policy none bound a stored case
C16_Witness ==
    /\ Started
    /\ start.policy = "none" /\ start.status = HTTP_OK
    /\ start.case # NoCase
    /\ convs[start.conv].caseId = start.case
    /\ start.case \in 1..Len(cases)

\* C17: a SendMessage request that fails because no API key is configured
\* ends with 503 without having loaded the message history and without
\* having written anything.
C17_DisabledDetectedBeforeHistory ==
    \A p \in Procs :
        (Done(p) /\ call[p].gwError = "disabled") =>
            /\ call[p].status = HTTP_UNAVAILABLE
            /\ ~call[p].loaded
            /\ call[p].hist = <<>>
            /\ eff[p] = NoEffect

\* the worker whose request the step belongs to
Stepped(p) == call[p].pc # "idle" /\ call'[p].pc # call[p].pc

\* C18: a step of a SendMessage request on conversation A reads and changes
\* nothing of another conversation: the history it loads holds messages of A
\* only, the rows of the other conversations (last_message_at and applied
\* case included) and the messages already stored stay as they are, and every
\* message it inserts is one of A. So when a request on A that shared A with
\* no other request ends successfully, A holds the messages it loaded and its
\* own two, its last_message_at is the created_at of its AI message and its
\* case is the one the request used, whatever a request on another
\* conversation did in the meantime.
C18_ExchangesIndependent ==
    [][\A p \in Procs : Stepped(p) =>
          LET a == call[p].conv
              own == {i \in 1..Len(msgs') : msgs'[i].conv = a}
          IN /\ \A c \in 1..Len(convs) : c # a => convs'[c] = convs[c]
             /\ Len(convs') = Len(convs)
             /\ Len(msgs') >= Len(msgs)
             /\ \A i \in 1..Len(msgs) : msgs'[i] = msgs[i]
             /\ \A i \in (Len(msgs) + 1)..Len(msgs') : msgs'[i].conv = a
             /\ Range(call'[p].hist) \subseteq own
             /\ \A k \in 1..Len(call'[p].sent) - 1 :
                   \/ /\ Truthy(StartingMessage(convs[a].persona))
                      /\ call'[p].sent[k].text =
                             Val(StartingMessage(convs[a].persona))
                   \/ \E i \in own :
                         call'[p].sent[k].text = msgs'[i].content
             /\ (/\ call'[p].pc = "done" /\ call'[p].status = HTTP_OK
                 /\ ~call'[p].overlapped) =>
                   /\ own = Range(call'[p].hist)
                              \cup {call'[p].userMsg, call'[p].aiMsg}
                   /\ convs'[a].lastAt = msgs'[call'[p].aiMsg].createdAt
                   /\ convs'[a].caseId = call'[p].case]_vars

\* two requests on two conversations ended successfully after their writes
\* had interleaved
C18_Witness ==
    /\ \A p \in Procs : Done(p) /\ call[p].status = HTTP_OK
    /\ call[1].conv # call[2].conv
    /\ call[1].userMsg < call[2].userMsg
    /\ call[2].userMsg < call[1].aiMsg
    /\ call[1].hist # <<>>

\* C19: the last_message_at of a conversation never decreases, whatever
\* requests are served and however they overlap.
C19_LastActivityNeverDecreases ==
    [][\A c \in 1..Len(convs) : convs'[c].lastAt >= convs[c].lastAt]_vars

SendStepOf(p) ==
    Active(p) /\ call'[p] # call[p] /\ call'[p].pc # "idle"

\* the positions a request passes through, in the order of send_new_message
NextPositions(pc) ==
    CASE pc = "called" -> {"resolved", "done"}
      [] pc = "resolved" -> {"loaded"}
      [] pc = "loaded" -> {"ready"}
      [] pc = "ready" -> {"replied", "done"}
      [] pc = "replied" -> {"uploaded"}
      [] pc = "uploaded" -> {"userSaved"}
      [] pc = "userSaved" -> {"userTouched"}
      [] pc = "userTouched" -> {"aiSaved"}
      [] pc = "aiSaved" -> {"done"}
      [] OTHER -> {}

\* C21: every SendMessage request goes through validation, the loading of
\* the context, the one call of the provider, then either the failure or the
\* reply, the user message and the AI message, in this order: the provider
\* is called once and only after the history was loaded, the user message is
\* inserted only after the provider replied, the AI message only after the
\* user message of the same request, and a failed request takes no further
\* step.
C21_StepsInOrder ==
    [][\A p \in Procs :
        /\ SendStepOf(p) =>
              /\ call'[p].pc \in NextPositions(call[p].pc) \cup {call[p].pc}
              /\ call'[p].gwCalls <= 1
              /\ call'[p].gwCalls > call[p].gwCalls =>
                    call[p].pc = "ready" /\ call[p].loaded
              /\ call'[p].userMsg # call[p].userMsg =>
                    /\ call[p].pc = "uploaded" /\ call[p].gwCalls = 1
                    /\ ~IsNone(call[p].reply)
                    /\ call[p].aiMsg = 0
                    /\ call'[p].userMsg = Len(msgs')
                    /\ msgs'[Len(msgs')].sender = USER
              /\ call'[p].aiMsg # call[p].aiMsg =>
                    /\ call[p].userMsg \in 1..Len(msgs)
                    /\ msgs[call[p].userMsg].sender = USER
                    /\ msgs[call[p].userMsg].conv = call[p].conv
                    /\ call'[p].aiMsg = Len(msgs')
                    /\ msgs'[Len(msgs')].sender = AI
              /\ Len(msgs') > Len(msgs) =>
                    \/ call'[p].userMsg # call[p].userMsg
                    \/ call'[p].aiMsg # call[p].aiMsg
        /\ Done(p) /\ call[p].status # HTTP_OK /\ call'[p] # call[p] =>
              /\ nCalls' = nCalls + 1
              /\ msgs' = msgs /\ convs' = convs /\ s3' = s3
     ]_vars

C21_Witness ==
    \E p \in Procs :
        /\ Done(p) /\ call[p].status = HTTP_OK
        /\ call[p].loaded /\ call[p].gwCalls = 1
        /\ 0 < call[p].userMsg /\ call[p].userMsg < call[p].aiMsg

\* ------------------------------------------------------------------ C22
\* the positions of the side effect e in the log of the last StartConversation
At(e) == {i \in 1..Len(start.log) : start.log[i] = e}

\* the side effects that resolve the scenario
ResolveEffects == {"lookup", "category", "synthesize", "createCase"}

\* C22: a StartConversation creates the bare conversation row first and
\* resolves the scenario afterwards: the lookup and the call of the
\* synthesizer come after the conversation row exists.
C22_ConversationRowFirst ==
    (Started /\ start.status = HTTP_OK) =>
        \A e \in ResolveEffects : \A i \in At(e) :
            \A k \in At("createConversation") : k < i

\* C22 amended: a StartConversation resolves the scenario first (the lookup,
\* then the synthesizer and the insert of the generated case when they are
\* needed), then creates the bare conversation row, then binds the scenario,
\* then seeds the starting message: the lookup and the call of the
\* synthesizer come before the conversation row exists, and a request that
\* fails to resolve the scenario never creates the row.
C22_ScenarioResolvedFirst ==
    Started =>
        /\ start.status = HTTP_OK =>
              /\ Cardinality(At("createConversation")) = 1
              /\ start.conv \in 1..Len(convs)
              /\ \A k \in At("createConversation") :
                    /\ \A e \in ResolveEffects : \A i \in At(e) : i < k
                    /\ \A i \in At("bind") : k < i
                    /\ \A i \in At("seed") :
                          /\ k < i
                          /\ \A j \in At("bind") : j < i
              /\ \A i \in At("lookup") : \A j \in At("synthesize") : i < j
              /\ \A i \in At("synthesize") : \A j \in At("createCase") : i < j
              /\ At("bind") # {} <=> start.case # NoCase
              /\ At("bind") # {} => convs[start.conv].caseId = start.case
              /\ At("seed") # {} <=> MsgIdsOf(start.conv) # {}
              /\ start.policy # "forceFresh" <=> At("lookup") # {}
              /\ start.synth <=> At("synthesize") # {}
        /\ start.status # HTTP_OK => At("createConversation") = {}

\* a case was looked up, generated, stored and bound, and the conversation
\* seeded
C22_Witness ==
    /\ Started /\ start.status = HTTP_OK
    /\ At("lookup") # {} /\ At("synthesize") # {} /\ At("createCase") # {}
    /\ At("bind") # {} /\ At("seed") # {}

\* ------------------------------------------------------------------ C23

Crashed(p) == Active(p) /\ call'[p].pc = "idle"

LoadedTogether(p, q) ==
    /\ p # q
    /\ Done(p) /\ Done(q)
    /\ call[p].status = HTTP_OK /\ call[q].status = HTTP_OK
    /\ call[p].conv = call[q].conv
    /\ Range(call[p].hist) \cap {call[q].userMsg, call[q].aiMsg} = {}
    /\ Range(call[q].hist) \cap {call[p].userMsg, call[p].aiMsg} = {}

\* C25: two SendMessage requests on one conversation do not exclude each
\* other: a request being served can always take its next step, whatever the
\* other worker does, and when both have loaded the history before either
\* wrote, neither has sent the other's user message to the provider and the
\* conversation ends with the history plus two user messages and two AI
\* messages, one pair for each request.
C25_OverlappingSendsBothLand ==
    /\ \A p \in Procs : Active(p) => ENABLED SendStep(p)
    /\ \A p, q \in Procs : LoadedTogether(p, q) =>
          LET cid == call[p].conv
              new == {call[p].userMsg, call[p].aiMsg,
                      call[q].userMsg, call[q].aiMsg}
          IN /\ Range(call[p].hist) = Range(call[q].hist)
             /\ Cardinality(new) = 4
             /\ MsgIdsOf(cid) = Range(call[p].hist) \cup new
             /\ Range(call[p].hist) \cap new = {}
             /\ Len(call[p].sent) = Len(call[q].sent)
             /\ \A r \in {p, q} :
                   /\ msgs[call[r].userMsg].sender = USER
                   /\ msgs[call[r].userMsg].content = Val(call[r].content)
                   /\ msgs[call[r].aiMsg].sender = AI
                   /\ call[r].userMsg < call[r].aiMsg
                   /\ Cardinality({i \in 1..Len(call[r].sent) :
                           call[r].sent[i].role = "user"}) =
                      1 + Cardinality({m \in Range(call[r].hist) :
                                           msgs[m].sender = USER})

\* both requests loaded the seeded history, and the user message of the one
\* was inserted between the two messages of the other
C25_Witness ==
    \E p, q \in Procs :
        /\ LoadedTogether(p, q)
        /\ call[p].hist # <<>>
        /\ call[p].userMsg < call[q].userMsg
        /\ call[q].userMsg < call[p].aiMsg

\* ------------------------------------------------------------------ C26
\* the gateway has built the contents of the request of worker p
Built(p) == call[p].gwCalls = 1 /\ call[p].gwError # "disabled"

\* C26: the contents sent to the provider are: the starting message of the
\* persona as one leading element of role model exactly when the persona has
\* one and the loaded history is empty; then one element for each message of
\* the history, in the order of created_at, of role user exactly when the
\* sender is the user and of role model otherwise, with the content of the
\* message; then exactly one element of role user with the text of the
\* request. Their number is the length of the history plus one, plus one
\* when the starting message was put in front.
C26_ContentsSentToProvider ==
    \A p \in Procs : Built(p) =>
        LET h == call[p].hist
            o == StartingMessage(convs[call[p].conv].persona)
            k == IF Truthy(o) /\ h = <<>> THEN 1 ELSE 0
            sent == call[p].sent
        IN /\ Len(sent) = Len(h) + 1 + k
           /\ k = 1 => sent[1] = [role |-> "model", text |-> Val(o),
                                   image |-> FALSE]
           /\ \A i \in 1..Len(h) :
                 /\ sent[k + i].role \in {"user", "model"}
                 /\ sent[k + i].role = "user" <=> msgs[h[i]].sender = USER
                 /\ sent[k + i].text = msgs[h[i]].content
                 /\ ~sent[k + i].image
                 /\ msgs[h[i]].conv = call[p].conv
                 /\ \A j \in 1..Len(h) :
                       i < j => /\ h[i] # h[j]
                                /\ msgs[h[i]].createdAt <= msgs[h[j]].createdAt
           /\ sent[Len(sent)].role = "user"
           /\ sent[Len(sent)].text = Val(call[p].content)

\* the gateway was asked for a persona with a starting message and a history
\* of a user message and a system message: nothing was put in front
C26_Witness ==
    \E p \in Procs :
        /\ Built(p)
        /\ Truthy(StartingMessage(convs[call[p].conv].persona))
        /\ Len(call[p].hist) = 2 /\ Len(call[p].sent) = 3
        /\ msgs[call[p].hist[1]].sender = USER
        /\ msgs[call[p].hist[2]].sender = SYSTEM
        /\ call[p].sent[2].role = "model"

\* ------------------------------------------------------------------ C27
\* C27: once a conversation has an applied phishing case, no step of a
\* SendMessage request, served alone or together with another, changes it to
\* a different case, and the case a request handed to the provider is the
\* one applied to the conversation when the request has ended: two requests
\* served together on a conversation without a case never run under two
\* different cases.
C27_BoundScenarioNeverChanges ==
    [][/\ \A c \in 1..Len(convs) :
             convs[c].caseId # NoCase => convs'[c].caseId = convs[c].caseId
       /\ \A p \in Procs :
             (call'[p].pc = "done" /\ call'[p].gwCalls = 1) =>
                 call'[p].case = convs'[call'[p].conv].caseId
       /\ \A p, q \in Procs :
             (/\ call'[p].conv = call'[q].conv
              /\ call'[p].gwCalls = 1 /\ call'[q].gwCalls = 1) =>
                 call'[p].case = call'[q].case
     ]_vars

\* ------------------------------------------------------------------ C28
\* C28: for a conversation of a persona with a starting message, the
\* contents of every provider call hold the starting message exactly once,
\* as the first element, of role model: it is the message seeded at the
\* start, the oldest of the history, and the gateway puts no second copy in
\* front.
C28_OpeningLineOnce ==
    \A p \in Procs :
        (Built(p) /\ Truthy(StartingMessage(convs[call[p].conv].persona))) =>
            LET o == Val(StartingMessage(convs[call[p].conv].persona))
                h == call[p].hist
                sent == call[p].sent
            IN /\ h # <<>>
               /\ msgs[h[1]].sender = AI
               /\ msgs[h[1]].content = o
               /\ h[1] = CHOOSE m \in MsgIdsOf(call[p].conv) :
                             \A n \in MsgIdsOf(call[p].conv) : m <= n
               /\ Len(sent) = Len(h) + 1
               /\ sent[1] = [role |-> "model", text |-> o, image |-> FALSE]
               /\ {i \in 1..Len(sent) :
                      sent[i].role = "model" /\ sent[i].text = o} = {1}

\* the second request on a seeded conversation has asked the gateway
C28_Witness ==
    \E p \in Procs :
        /\ Built(p)
        /\ Truthy(StartingMessage(convs[call[p].conv].persona))
        /\ Len(call[p].hist) = 3 /\ Len(call[p].sent) = 4
        /\ msgs[call[p].hist[2]].sender = USER

\* ------------------------------------------------------------------ C29
RECURSIVE InCreationOrder(_)
\* the message ids of the set ids, in the order the rows were inserted
InCreationOrder(ids) ==
    IF ids = {} THEN <<>>
    ELSE LET first == CHOOSE m \in ids : \A n \in ids : m <= n
         IN <<first>> \o InCreationOrder(ids \ {first})

\* C29: with requests served one at a time, whenever no request is being
\* served the messages of a conversation, in the order they were created,
\* are the seeded starting message, when the persona has one, followed by
\* user messages and AI messages in turn: every user message is directly
\* followed by one AI message, there are as many AI messages as user messages
\* plus the seeded one, and created_at never decreases along the order.
C29_TurnsAlternate ==
    (\A p \in Procs : ~Active(p)) =>
        \A c \in 1..Len(convs) :
            LET turns == InCreationOrder(MsgIdsOf(c))
                k == IF Truthy(StartingMessage(convs[c].persona)) THEN 1 ELSE 0
                ofSender(t) == {i \in 1..Len(turns) : msgs[turns[i]].sender = t}
            IN /\ Len(turns) >= k
               /\ k = 1 =>
                     /\ msgs[turns[1]].sender = AI
                     /\ msgs[turns[1]].content =
                            Val(StartingMessage(convs[c].persona))
               /\ (Len(turns) - k) % 2 = 0
               /\ \A i \in 1..(Len(turns) - k) :
                     msgs[turns[k + i]].sender =
                         IF i % 2 = 1 THEN USER ELSE AI
               /\ Cardinality(ofSender(AI)) - Cardinality(ofSender(USER)) = k
               /\ ofSender(SYSTEM) = {}
               /\ \A i \in 1..Len(turns) : \A j \in 1..Len(turns) :
                     i < j => msgs[turns[i]].createdAt
                                  <= msgs[turns[j]].createdAt

\* a seeded conversation after two requests that succeeded
C29_Witness ==
    /\ \A p \in Procs : ~Active(p)
    /\ \E c \in 1..Len(convs) :
          /\ Truthy(StartingMessage(convs[c].persona))
          /\ Cardinality(MsgIdsOf(c)) = 5

\* ------------------------------------------------------------------ C30
\* C30: every stored message with an image key names an object that the
\* request which inserted the message has put into the bucket under that
\* key: no message has the key of a put_object that failed or was not tried,
\* only user messages have a key, and no two messages have the same key.
C30_KeysNameStoredObjects ==
    [][/\ \A m \in 1..Len(msgs') :
             msgs'[m].imageKey # NoKey =>
                 /\ msgs'[m].imageKey \in s3'
                 /\ msgs'[m].sender = USER
                 /\ \A n \in 1..Len(msgs') :
                       n # m => msgs'[n].imageKey # msgs'[m].imageKey
       /\ \A m \in (Len(msgs) + 1)..Len(msgs') :
             msgs'[m].imageKey # NoKey =>
                 \E p \in Procs :
                     /\ SendStepOf(p)
                     /\ call'[p].userMsg = m
                     /\ call[p].image = "png"
                     /\ call[p].puts = 1
                     /\ call[p].putKey = msgs'[m].imageKey
                     /\ call[p].putKey \in s3
                     /\ msgs'[m].conv = call[p].conv
     ]_vars

\* two requests with an image have each stored their upload and saved its
\* key with their user message
C30_Witness ==
    /\ \E m \in 1..Len(msgs) : \E n \in 1..Len(msgs) :
          /\ m # n
          /\ msgs[m].imageKey # NoKey /\ msgs[n].imageKey # NoKey
    /\ keySeq = 2

====
